---- MODULE Spec2Model ----
(***************************************************************************)
(* Model of the GitHub e-mail scraper: the resilient HTTP session, the     *)
(* key-rotating GitHubApiHandler and the two driver loops (GHES.py writes  *)
(* to a Google Sheet, cloud02.py to a local CSV file).                     *)
(***************************************************************************)
EXTENDS Integers, Sequences, FiniteSets, TLC

\* ------------------------------------------------------------------ bounds
MaxKeys == 19
MaxRotations == 19
MaxRows == 2
MaxRuns == 2
MaxLen == 6

\* ------------------------------------------------------- program constants
retries == 3
Threshold == 10
Ceiling == 18
CooldownSeconds == 3900

VARIABLES
    \* GitHubApiHandler
    len_api_keys,        \* len(self.api_keys)
    current_key_index,
    failed_attempts,
    request_count,
    \* history of the handler's calls
    rotations,           \* key switches made so far
    waited,              \* seconds spent in time.sleep
    since_recovery,      \* switches since the last probe >= Threshold, sleep or start
    exhausted,           \* key indices probed below Threshold since the last sleep
    last_probe,          \* what the last call's probe came to (handler on its own)
    \* one GET through the retrying session
    script,              \* what the server answers, attempt by attempt
    response,            \* what the session hands to its caller
    \* main()
    mode,                \* "sheet" (GHES.py) or "csv" (cloud02.py)
    run,                 \* which invocation of the script this is
    pc,                  \* where main() stands
    index,               \* the row the for loop is at
    input_df,            \* the rows in memory: Status and Email
    stored,              \* the input as persisted: input2.csv, or Sheet1
    sheet2,              \* the rows written to the output sheet
    expired,             \* datetime.now() - start_time > max_runtime
    email,               \* what the fetch of the current row has come to
    \* history of a run
    net,                 \* the answered network calls of the current row, in order
    last_call,           \* the latest of them and how the client handled it
    resolved_in,         \* per row, the run that marked it Done (0: none yet)
    fetched,             \* the rows this run has called the fetcher for, in order
    seen,                \* the profile and README answers of the current row
    \* extract_email on its own
    input_text,          \* the text handed to it
    extracted            \* what it returned

HandlerVars == <<len_api_keys, current_key_index, failed_attempts, request_count>>
CallVars == <<rotations, waited, since_recovery, exhausted>>
HistoryVars == <<CallVars, last_probe>>
HttpVars == <<script, response>>
DriverVars == <<mode, run, pc, index, input_df, stored, sheet2, expired, email,
                net, last_call, resolved_in, fetched, seen>>
ExtractVars == <<input_text, extracted>>
vars == <<HandlerVars, HistoryVars, HttpVars, DriverVars, ExtractVars>>

\* ------------------------------------------------- the retrying HTTP session
status_forcelist == {500, 502, 504}
RETRY_AFTER_STATUS_CODES == {413, 429, 503}
Statuses == {200, 404, 429, 500, 502, 504}

\* What the server (or the network) does to one attempt.
ServerOutcomes ==
    {[kind |-> k, status |-> 0, retry_after |-> FALSE] : k \in {"conn", "read"}}
    \cup [kind : {"resp"}, status : Statuses, retry_after : BOOLEAN]

Scripts == [1..(retries + 1) -> ServerOutcomes]

\* Retry(total=retries, read=retries, connect=retries, status_forcelist=...)
NewRetry == [total |-> retries, connect |-> retries, read |-> retries]

\* Retry.is_retry: a listed status, or a Retry-After header on 413/429/503 while
\* the total budget is not zero (respect_retry_after_header defaults to True).
is_retry(r, o) ==
    \/ o.status \in status_forcelist
    \/ (r.total # 0 /\ o.retry_after /\ o.status \in RETRY_AFTER_STATUS_CODES)

\* Retry.increment: every retry costs one of total; a connection error one of
\* connect, a read error one of read.
increment(r, o) ==
    [total |-> r.total - 1,
     connect |-> IF o.kind = "conn" THEN r.connect - 1 ELSE r.connect,
     read |-> IF o.kind = "read" THEN r.read - 1 ELSE r.read]

is_exhausted_early(r) ==
    r.total <= 0 \/ r.connect <= 0 \/ r.read <= 0

\* Retry.is_exhausted
is_exhausted(r) ==
    r.total < 0 \/ r.connect < 0 \/ r.read < 0

\* Whether an attempt's outcome makes the adapter consider a retry at all.
wants_retry(r, o) ==
    o.kind # "resp" \/ is_retry(r, o)

\* HTTPAdapter.send -> urlopen: attempt n of the script under retry state r.
\* The result is the response handed back, or the exception raised
\* (ConnectionError, RetryError) once the budget is spent.
RECURSIVE urlopen(_, _, _)
urlopen(r, outs, n) ==
    LET o == outs[n] IN
    IF wants_retry(r, o)
    THEN IF is_exhausted(increment(r, o))
         THEN [kind |-> "raise", status |-> 0, attempts |-> n,
               transient |-> wants_retry(NewRetry, outs[1])]
         ELSE urlopen(increment(r, o), outs, n + 1)
    ELSE [kind |-> "resp", status |-> o.status, attempts |-> n,
          transient |-> wants_retry(NewRetry, outs[1])]

\* requests_retry_session().get(url, headers=headers)
requests_retry_session(outs) ==
    urlopen(NewRetry, outs, 1)

\* requests.get(url, headers=headers): no adapter retries, one attempt.
requests_get(outs) ==
    LET o == outs[1] IN
    [kind |-> IF o.kind = "resp" THEN "resp" ELSE "raise",
     status |-> o.status, attempts |-> 1,
     transient |-> wants_retry(NewRetry, o)]

\* Everything the retrying session can hand to its caller.
SessionExchanges == {requests_retry_session(s) : s \in Scripts}

NoResponse == [kind |-> "none", status |-> 0, attempts |-> 0, transient |-> FALSE]

\* ------------------------------------------------------------ extract_email
\* Texts are sequences of one-character strings.  None and '' are both the
\* empty sequence: every caller tests the result for truth only.
None == <<>>

Letters == {"a", "b", "c", "o", "m"}
Digits == {"1"}
WordChars == Letters \cup Digits \cup {"_"}
LocalChars == Letters \cup Digits \cup {".", "_", "%", "+", "-"}
DomainChars == Letters \cup Digits \cup {".", "-"}
TldChars == Letters \cup {"|"}
StripChars == {"\"", "<", ">", "[", "]", "(", ")"}

CharAt(t, i) == IF i \in 1..Len(t) THEN t[i] ELSE ""

\* \b between positions i-1 and i
WordBoundary(t, i) == (CharAt(t, i - 1) \in WordChars) # (CharAt(t, i) \in WordChars)

\* the last position of the longest run of cls characters that starts at i
RunEnd(t, i, cls) ==
    (CHOOSE j \in i..(Len(t) + 1) :
        /\ CharAt(t, j) \notin cls
        /\ \A h \in i..(j - 1) : CharAt(t, h) \in cls) - 1

SetMax(S) == CHOOSE x \in S : \A y \in S : y <= x

\* Where the pattern's first successful match from position s ends (0: none).
\* Each + and {2,} is greedy, so the longest domain is tried first and, for it,
\* the longest top-level part.
MatchEnd(t, s) ==
    LET at == RunEnd(t, s, LocalChars) + 1
        dom == RunEnd(t, at + 1, DomainChars)
        Ends(j) == {e \in (j + 3)..RunEnd(t, j + 2, TldChars) : WordBoundary(t, e + 1)}
        doms == {j \in (at + 1)..dom : CharAt(t, j + 1) = "." /\ Ends(j) # {}}
    IN  IF WordBoundary(t, s) /\ at > s /\ CharAt(t, at) = "@" /\ doms # {}
        THEN SetMax(Ends(SetMax(doms)))
        ELSE 0

RECURSIVE strip(_)
strip(t) ==
    IF t # <<>> /\ Head(t) \in StripChars THEN strip(Tail(t))
    ELSE IF t # <<>> /\ t[Len(t)] \in StripChars THEN strip(SubSeq(t, 1, Len(t) - 1))
    ELSE t

extract_email_whole(text) ==
    text

\* re.findall(pattern, text): matches[0].strip('"<>[]()'), or None
extract_email(text) ==
    LET starts == {s \in 1..Len(text) : MatchEnd(text, s) > 0} IN
    IF starts = {} THEN None
    ELSE LET s == CHOOSE x \in starts : \A y \in starts : x <= y
         IN  strip(SubSeq(text, s, MatchEnd(text, s)))

\* --------------------------------------------------------- GitHubApiHandler
Remainings == {Threshold - 1, Threshold}

\* response.json()['rate']['remaining'] is read from a 200 only.
ProbeBodies(x) ==
    IF x.kind = "resp" /\ x.status = 200 THEN Remainings ELSE {0}

next_key_index_no_wrap(i, n) ==
    i + 1

\* (self.current_key_index + 1) % len(self.api_keys)
next_key_index(i, n) ==
    (i + 1) % n

get_remaining_requests_optimistic(x, remaining) ==
    IF x.status = 200 THEN remaining ELSE Threshold

\* get_remaining_requests, given the probe's response: its rate.remaining on a
\* 200, and 0 on any other status.
get_remaining_requests(x, remaining) ==
    IF x.status = 200 THEN remaining ELSE 0

cooldown_due_off_by_one(fa) ==
    fa > Ceiling

below_threshold_inclusive(remaining) ==
    remaining <= Threshold

\* if remaining_requests < 10
below_threshold(remaining) ==
    remaining < Threshold

\* if self.failed_attempts >= 18
cooldown_due(fa) ==
    fa >= Ceiling

NoProbe == [outcome |-> "none", ok |-> FALSE, remaining |-> 0]

\* What a call's probe came to: an exception, or a response (ok: status 200)
\* and the remaining quota get_remaining_requests made of it.
Probed(x, body) ==
    IF x.kind = "raise"
    THEN [outcome |-> "raise", ok |-> FALSE, remaining |-> 0]
    ELSE [outcome |-> "resp", ok |-> x.status = 200,
          remaining |-> get_remaining_requests(x, body)]

\* check_and_switch_key with the probe's exchange x and the rate.remaining the
\* body of a 200 carries.  An exception of the probe leaves the handler as it is
\* and propagates.
check_and_switch_key(x, body) ==
    IF x.kind = "raise"
    THEN UNCHANGED <<HandlerVars, rotations, waited, since_recovery, exhausted>>
    ELSE LET remaining_requests == get_remaining_requests(x, body) IN
         /\ UNCHANGED len_api_keys
         /\ IF below_threshold(remaining_requests)
            THEN /\ current_key_index' = next_key_index(current_key_index, len_api_keys)
                 /\ request_count' = 0
                 /\ rotations' = rotations + 1
                 /\ IF cooldown_due(failed_attempts + 1)
                    THEN /\ waited' = waited + CooldownSeconds
                         /\ failed_attempts' = 0
                         /\ since_recovery' = 0
                         /\ exhausted' = {}
                    ELSE /\ failed_attempts' = failed_attempts + 1
                         /\ since_recovery' = since_recovery + 1
                         /\ exhausted' = exhausted \cup {current_key_index}
                         /\ UNCHANGED waited
            ELSE /\ since_recovery' = 0
                 /\ UNCHANGED <<current_key_index, request_count, failed_attempts,
                                rotations, waited, exhausted>>

\* GitHubApiHandler.__init__
HandlerInit(n) ==
    /\ len_api_keys = n
    /\ current_key_index = 0
    /\ request_count = 0
    /\ failed_attempts = 0

HistoryInit ==
    /\ rotations = 0
    /\ waited = 0
    /\ since_recovery = 0
    /\ exhausted = {}
    /\ last_probe = NoProbe

NoCall == [call |-> "none", unretried |-> FALSE]

\* An answer as the fetch of a row saw it: whether its status was 200 and what
\* of its body the code reads (the email field, the README text).
NoAnswer == [answered |-> FALSE, ok |-> FALSE, body |-> None]
Answer(x, body) == [answered |-> TRUE, ok |-> x.status = 200, body |-> body]
NoSeen == [profile |-> NoAnswer, readme |-> NoAnswer]

NotExtracted == [called |-> FALSE, result |-> None]

\* extract_email not called
ExtractIdle ==
    /\ input_text = <<>>
    /\ extracted = NotExtracted

\* main() not started
DriverIdle ==
    /\ mode = "csv"
    /\ run = 1
    /\ pc = "boot"
    /\ index = 1
    /\ input_df = <<>>
    /\ stored = <<>>
    /\ sheet2 = <<>>
    /\ expired = FALSE
    /\ email = None
    /\ net = <<>>
    /\ last_call = NoCall
    /\ resolved_in = <<>>
    /\ fetched = <<>>
    /\ seen = NoSeen

\* ---------------------------------- the handler under any sequence of calls
LimiterInit ==
    /\ \E n \in 1..MaxKeys : HandlerInit(n)
    /\ HistoryInit
    /\ script = <<>>
    /\ response = NoResponse
    /\ DriverIdle
    /\ ExtractIdle

LimiterCall ==
    /\ rotations < MaxRotations
    /\ \E x \in SessionExchanges : \E body \in ProbeBodies(x) :
          /\ check_and_switch_key(x, body)
          /\ last_probe' = Probed(x, body)
    /\ UNCHANGED <<HttpVars, DriverVars, ExtractVars>>

LimiterNext == LimiterCall

LimiterSpec == LimiterInit /\ [][LimiterNext]_vars

\* ------------------------------------------- one GET through the session
HttpInit ==
    /\ HandlerInit(1)
    /\ HistoryInit
    /\ script \in Scripts
    /\ response = NoResponse
    /\ DriverIdle
    /\ ExtractIdle

HttpGet ==
    /\ response = NoResponse
    /\ response' = requests_retry_session(script)
    /\ UNCHANGED <<HandlerVars, HistoryVars, DriverVars, ExtractVars, script>>

HttpNext == HttpGet

HttpSpec == HttpInit /\ [][HttpNext]_vars

\* -------------------------------------------------------------------- main()
Pending == [Status |-> "", Email |-> None]
SampleEmail == <<"m", "@", "b", ".", "c", "o">>
Resolved == [Status |-> "Done", Email |-> SampleEmail]

\* user_data.get('email', ''): absent, null or empty, or an address
ProfileEmails == {None, SampleEmail}
\* README.md texts
Docs == {<<"o">>, <<"<", "m", "@", "b", ".", "c", "o", ">">>}

\* len(api_keys) in the runs of main()
DriverPools == {1, 2}

max_runtime_ignored(e) ==
    FALSE

\* if datetime.now() - start_time > max_runtime
max_runtime_reached(e) ==
    e

is_done_lowercase(row) ==
    row.Status = "done"

\* if row['Status'] == 'Done'
is_done(row) ==
    row.Status = "Done"

mark_done_status_only(df, i, e) ==
    [df EXCEPT ![i].Status = "Done"]

\* input_df.at[index, 'Email'] = email; input_df.at[index, 'Status'] = 'Done'
mark_done(df, i, e) ==
    [df EXCEPT ![i] = [Status |-> "Done", Email |-> e]]

\* read_google_sheet(sheet_id, 'Sheet1!A1:C'): the range ends at column C, so
\* Status and Email are not among the columns read and main() adds them empty.
read_google_sheet(rows) ==
    [r \in 1..Len(rows) |-> Pending]

\* pd.read_csv(input_csv_path): every column of the file
read_csv(rows) ==
    rows

\* input_df.to_csv(input_csv_path, index=False) in the CSV script; the sheet
\* script never writes the input back.
to_csv(df) ==
    IF mode = "csv" THEN stored' = df ELSE UNCHANGED stored

\* write_to_google_sheet(sheet_id, sheet_name, [[..., email]]): the row goes to
\* the first empty row of the output sheet (kept here with the run that wrote it)
write_to_google_sheet(sheet, r, e) ==
    Append(sheet, [row |-> r, Email |-> e, run |-> run])

logged_first_key(call) ==
    [call |-> call, key |-> 0]

\* A network call as the row's log keeps it: which call, and the key its
\* headers carry (get_headers()).
Logged(call) ==
    [call |-> call, key |-> current_key_index]

\* The latest network call: whether its first attempt met a transient failure
\* (one the retry policy covers) and the client made no further attempt.
Handled(call, x) ==
    [call |-> call, unretried |-> x.transient /\ x.attempts = 1]

next_row_abort ==
    /\ pc' = "loop"
    /\ index' = Len(input_df) + 1
    /\ email' = None
    /\ net' = <<>>
    /\ last_call' = NoCall
    /\ last_probe' = NoProbe
    /\ seen' = NoSeen

next_row_again ==
    /\ pc' = "loop"
    /\ index' = index
    /\ email' = None
    /\ net' = <<>>
    /\ last_call' = NoCall
    /\ last_probe' = NoProbe
    /\ seen' = NoSeen

\* the end of the row's iteration, also through the except clause (log and
\* continue): on to the next row
NextRow ==
    /\ pc' = "loop"
    /\ index' = index + 1
    /\ email' = None
    /\ net' = <<>>
    /\ last_call' = NoCall
    /\ last_probe' = NoProbe
    /\ seen' = NoSeen

\* return from main(): the process ends, and what it held in memory, but for
\* the table it worked on, is gone
Return ==
    /\ pc' = "exit"
    /\ len_api_keys' = 1
    /\ current_key_index' = 0
    /\ request_count' = 0
    /\ failed_attempts' = 0
    /\ rotations' = 0
    /\ waited' = 0
    /\ since_recovery' = 0
    /\ exhausted' = {}
    /\ last_probe' = NoProbe
    /\ index' = 1
    /\ expired' = FALSE
    /\ email' = None
    /\ net' = <<>>
    /\ last_call' = NoCall
    /\ seen' = NoSeen

\* main() up to the for loop: the handler is built, the table loaded, the
\* clock started.
StartRun ==
    /\ pc = "boot"
    /\ \E n \in DriverPools : len_api_keys' = n
    /\ input_df' = IF mode = "sheet" THEN read_google_sheet(stored) ELSE read_csv(stored)
    /\ pc' = IF mode = "sheet" /\ stored = <<>> THEN "exit" ELSE "loop"
    /\ fetched' = <<>>
    /\ UNCHANGED <<current_key_index, failed_attempts, request_count, HistoryVars,
                   HttpVars, ExtractVars, mode, run, index, stored, sheet2, expired,
                   email, net, last_call, resolved_in, seen>>

\* time passes while main() runs
Tick ==
    /\ pc \notin {"boot", "exit"}
    /\ ~expired
    /\ expired' = TRUE
    /\ UNCHANGED <<HandlerVars, HistoryVars, HttpVars, ExtractVars, mode, run, pc,
                   index, input_df, stored, sheet2, email, net, last_call,
                   resolved_in, fetched, seen>>

\* if datetime.now() - start_time > max_runtime: (save and) return
RuntimeReached ==
    /\ pc = "loop"
    /\ index <= Len(input_df)
    /\ max_runtime_reached(expired)
    /\ to_csv(input_df)
    /\ Return
    /\ UNCHANGED <<HttpVars, ExtractVars, mode, run, input_df, sheet2, resolved_in,
                   fetched>>

\* if row['Status'] == 'Done': continue
SkipDone ==
    /\ pc = "loop"
    /\ index <= Len(input_df)
    /\ ~max_runtime_reached(expired)
    /\ is_done(input_df[index])
    /\ index' = index + 1
    /\ UNCHANGED <<HandlerVars, HistoryVars, HttpVars, ExtractVars, mode, run, pc,
                   input_df, stored, sheet2, expired, email, net, last_call,
                   resolved_in, fetched, seen>>

\* a pending row enters the try block:
\* github_api_handler.get_user_info_from_github_api(profile_url) is called
BeginRow ==
    /\ pc = "loop"
    /\ index <= Len(input_df)
    /\ ~max_runtime_reached(expired)
    /\ ~is_done(input_df[index])
    /\ pc' = "check"
    /\ fetched' = Append(fetched, index)
    /\ UNCHANGED <<HandlerVars, HistoryVars, HttpVars, ExtractVars, mode, run, index,
                   input_df, stored, sheet2, expired, email, net, last_call,
                   resolved_in, seen>>

\* get_user_info_from_github_api: self.check_and_switch_key()
FetchCheckKey ==
    /\ pc = "check"
    /\ \E x \in SessionExchanges :
          /\ \E body \in ProbeBodies(x) :
                /\ check_and_switch_key(x, body)
                /\ IF x.kind = "raise"
                   THEN NextRow
                   ELSE /\ pc' = "profile"
                        /\ last_probe' = NoProbe
                        /\ net' = Append(net, Logged("probe"))
                        /\ last_call' = Handled("probe", x)
                        /\ UNCHANGED <<index, email, seen>>
    /\ UNCHANGED <<HttpVars, ExtractVars, mode, run, input_df, stored, sheet2,
                   expired, resolved_in, fetched>>

\* get_user_info_from_github_api: the request for /users/{username} and what
\* its answer leads to
FetchProfile ==
    /\ pc = "profile"
    /\ request_count' = request_count + 1
    /\ \E x \in SessionExchanges :
          /\ IF x.kind = "raise"
             THEN NextRow
             ELSE /\ UNCHANGED <<index, last_probe>>
                  /\ net' = Append(net, Logged("profile"))
                  /\ last_call' = Handled("profile", x)
                  /\ IF x.status # 200
                     THEN /\ email' = None
                          /\ pc' = "store"
                          /\ seen' = [seen EXCEPT !.profile = Answer(x, None)]
                     ELSE \E field \in ProfileEmails :
                             /\ email' = field
                             /\ pc' = IF field # None THEN "store" ELSE "readme"
                             /\ seen' = [seen EXCEPT !.profile = Answer(x, field)]
    /\ UNCHANGED <<len_api_keys, current_key_index, failed_attempts, CallVars,
                   HttpVars, ExtractVars, mode, run, input_df, stored, sheet2,
                   expired, resolved_in, fetched>>

\* get_email_from_readme: requests.get of the README and extract_email
FetchReadme ==
    /\ pc = "readme"
    /\ \E o \in ServerOutcomes :
          LET x == requests_get(<<o>>) IN
          /\ IF x.kind = "raise"
             THEN NextRow
             ELSE /\ UNCHANGED <<index, last_probe>>
                  /\ net' = Append(net, Logged("readme"))
                  /\ last_call' = Handled("readme", x)
                  /\ pc' = "store"
                  /\ IF x.status = 200
                     THEN \E doc \in Docs :
                             /\ email' = extract_email(doc)
                             /\ seen' = [seen EXCEPT !.readme = Answer(x, doc)]
                     ELSE /\ email' = None
                          /\ seen' = [seen EXCEPT !.readme = Answer(x, None)]
    /\ UNCHANGED <<HandlerVars, CallVars, HttpVars, ExtractVars, mode, run, input_df,
                   stored, sheet2, expired, resolved_in, fetched>>

\* if email: the row gets its Email and Status; the sheet script then appends
\* the row to the output sheet, and an HttpError of that write is caught by the
\* loop's except clause; the CSV script saves the file.
StoreEmail ==
    /\ pc = "store"
    /\ email # None
    /\ input_df' = mark_done(input_df, index, email)
    /\ resolved_in' = [resolved_in EXCEPT ![index] = run]
    /\ IF mode = "sheet"
       THEN \E raised \in BOOLEAN :
               sheet2' = IF raised THEN sheet2 ELSE write_to_google_sheet(sheet2, index, email)
       ELSE UNCHANGED sheet2
    /\ to_csv(input_df')
    /\ NextRow
    /\ UNCHANGED <<HandlerVars, CallVars, HttpVars, ExtractVars, mode, run, expired,
                   fetched>>

\* else: "No email found"; the CSV script saves the file all the same
NoEmail ==
    /\ pc = "store"
    /\ email = None
    /\ to_csv(input_df)
    /\ NextRow
    /\ UNCHANGED <<HandlerVars, CallVars, HttpVars, ExtractVars, mode, run, input_df,
                   sheet2, expired, resolved_in, fetched>>

\* the for loop is through: the CSV script saves once more
LoopEnd ==
    /\ pc = "loop"
    /\ index > Len(input_df)
    /\ to_csv(input_df)
    /\ Return
    /\ UNCHANGED <<HttpVars, ExtractVars, mode, run, input_df, sheet2, resolved_in,
                   fetched>>

\* the script is started again on what the last run left behind
NextRun ==
    /\ pc = "exit"
    /\ run < MaxRuns
    /\ run' = run + 1
    /\ pc' = "boot"
    /\ UNCHANGED <<HandlerVars, HistoryVars, HttpVars, ExtractVars, mode, index,
                   input_df, stored, sheet2, expired, email, net, last_call,
                   resolved_in, fetched, seen>>

Init ==
    /\ HandlerInit(1)
    /\ HistoryInit
    /\ script = <<>>
    /\ response = NoResponse
    /\ ExtractIdle
    /\ mode \in {"sheet", "csv"}
    /\ run = 1
    /\ pc = "boot"
    /\ index = 1
    /\ input_df = <<>>
    /\ \E n \in 0..MaxRows :
          stored \in [1..n -> IF mode = "csv" THEN {Pending, Resolved} ELSE {Pending}]
    /\ sheet2 = <<>>
    /\ expired = FALSE
    /\ email = None
    /\ net = <<>>
    /\ last_call = NoCall
    /\ resolved_in = [r \in 1..Len(stored) |-> 0]
    /\ fetched = <<>>
    /\ seen = NoSeen

Next ==
    \/ StartRun
    \/ Tick
    \/ RuntimeReached
    \/ SkipDone
    \/ BeginRow
    \/ FetchCheckKey
    \/ FetchProfile
    \/ FetchReadme
    \/ StoreEmail
    \/ NoEmail
    \/ LoopEnd
    \/ NextRun

Spec == Init /\ [][Next]_vars

\* ------------------------------------------------------- one run of main()
\* One invocation of the script.  Each statement of main() is followed by the
\* next (the interpreter runs on, every network call returns or raises, and
\* time.sleep returns), which is what the weak fairness of a step says; the
\* clock is under no such obligation.
RunStep ==
    \/ StartRun
    \/ RuntimeReached
    \/ SkipDone
    \/ BeginRow
    \/ FetchCheckKey
    \/ FetchProfile
    \/ FetchReadme
    \/ StoreEmail
    \/ NoEmail
    \/ LoopEnd

RunNext ==
    \/ RunStep
    \/ Tick

RunSpec == Init /\ [][RunNext]_vars /\ WF_vars(RunStep)

\* ------------------------------------------------- extract_email on any text
Alphabet == {"a", "@", ".", "|", "<"}

RECURSIVE Texts(_)
Texts(n) ==
    IF n = 0 THEN {<<>>}
    ELSE LET shorter == Texts(n - 1) IN
         shorter \cup {Append(t, c) : t \in {u \in shorter : Len(u) = n - 1}, c \in Alphabet}

ExtractInit ==
    /\ HandlerInit(1)
    /\ HistoryInit
    /\ script = <<>>
    /\ response = NoResponse
    /\ DriverIdle
    /\ input_text \in Texts(MaxLen)
    /\ extracted = NotExtracted

ExtractCall ==
    /\ ~extracted.called
    /\ extracted' = [called |-> TRUE, result |-> extract_email(input_text)]
    /\ UNCHANGED <<HandlerVars, HistoryVars, HttpVars, DriverVars, input_text>>

ExtractNext == ExtractCall

ExtractSpec == ExtractInit /\ [][ExtractNext]_vars

\* ------------------------------------------------------------------ claims
StepIndex == (current_key_index + 1) % len_api_keys
ProbedBelow == last_probe'.outcome = "resp" /\ last_probe'.remaining < Threshold
ProbedEnough == last_probe'.outcome = "resp" /\ last_probe'.remaining >= Threshold

\* C1: for every pool size n >= 1 and every sequence of check_and_switch_key
\* calls, current_key_index stays in 0..n-1 and a call changes it only to
\* (current_key_index + 1) mod n.
C1_IndexCircular ==
    /\ [](current_key_index \in 0..(len_api_keys - 1))
    /\ [][current_key_index' # current_key_index => current_key_index' = StepIndex]_vars

\* a pool of 3 keys whose index has wrapped round once
C1_Witness ==
    len_api_keys = 3 /\ rotations = 4 /\ current_key_index = 1

\* C2 as stated: a call whose probe is below 10 steps the index and leaves
\* failed_attempts exactly one higher; a call whose probe is 10 or more leaves
\* both as they were.
C2_IncrementsByOne ==
    [][/\ ProbedBelow => /\ current_key_index' = StepIndex
                         /\ failed_attempts' = failed_attempts + 1
       /\ ProbedEnough => UNCHANGED <<current_key_index, failed_attempts>>]_vars

\* C2 amended: a call whose probe is below 10 steps the index and adds one to
\* failed_attempts, except that the call making it 18 returns with it reset to
\* 0; a call whose probe is 10 or more leaves both as they were; with 2 keys
\* the index alternates 0, 1, 0, 1 with each switch.
C2_RotateAndCount ==
    /\ [](len_api_keys = 2 => current_key_index = rotations % 2)
    /\ [][/\ ProbedBelow => /\ current_key_index' = StepIndex
                            /\ rotations' = rotations + 1
                            /\ failed_attempts' = IF failed_attempts + 1 = Ceiling
                                                  THEN 0 ELSE failed_attempts + 1
          /\ ProbedEnough => UNCHANGED <<current_key_index, failed_attempts, rotations>>]_vars

\* 2 keys, three probes below 10 in a row: the index went 0, 1, 0, 1
C2_Witness ==
    /\ len_api_keys = 2 /\ rotations = 3 /\ failed_attempts = 3
    /\ current_key_index = 1 /\ last_probe.remaining = Threshold - 1

\* C3: the 3900 s sleep happens exactly on the call that brings failed_attempts
\* to 18 and on no other; that call returns with failed_attempts = 0; so after
\* 18 switches there has been one sleep, and between calls failed_attempts is
\* in 0..17.
C3_CooldownAtCeiling ==
    /\ [](/\ failed_attempts \in 0..(Ceiling - 1)
          /\ failed_attempts = rotations % Ceiling
          /\ waited = CooldownSeconds * (rotations \div Ceiling))
    /\ [][IF rotations' # rotations /\ failed_attempts + 1 = Ceiling
          THEN waited' = waited + CooldownSeconds /\ failed_attempts' = 0
          ELSE waited' = waited]_vars

\* 18 switches made: one sleep, counter back at 0
C3_Witness ==
    rotations = Ceiling /\ waited = CooldownSeconds /\ failed_attempts = 0

\* C4 as stated: failed_attempts is the number of switches since the most
\* recent probe of 10 or more (or the last sleep, or the start).
C4_CountsSinceRecovery ==
    failed_attempts = since_recovery

\* C5 as stated: when the sleep is triggered, every key of the pool has been
\* probed below 10 since the previous sleep (or the start).
C5_AllKeysExhausted ==
    [][waited' # waited =>
          exhausted \cup {current_key_index} = 0..(len_api_keys - 1)]_vars

ProbeFailed == last_probe'.outcome = "raise" \/ ~last_probe'.ok

\* C6 as stated: a probe that ends in anything but a success response counts as
\* zero quota - the call switches key and counts a failed attempt - and never
\* reaches the caller as an error.
C6_FailureIsZeroQuota ==
    [][(last_probe' # last_probe /\ ProbeFailed) =>
          /\ last_probe'.outcome = "resp"
          /\ rotations' = rotations + 1]_vars

\* C6 amended: a probe answered with a status other than 200 counts as zero
\* quota: the call switches key and counts a failed attempt (or sleeps and
\* resets at 18); a probe that raises (connection or read failure, or a 500,
\* 502, 504 with the retries spent) leaves the handler unchanged and raises.
C6_NonSuccessResponseIsZeroQuota ==
    [][/\ (last_probe'.outcome = "resp" /\ ~last_probe'.ok) =>
             /\ last_probe'.remaining = 0
             /\ current_key_index' = StepIndex
             /\ rotations' = rotations + 1
             /\ failed_attempts' = IF failed_attempts + 1 = Ceiling
                                   THEN 0 ELSE failed_attempts + 1
       /\ last_probe'.outcome = "raise" =>
             UNCHANGED <<HandlerVars, rotations, waited>>]_vars

\* a 404 probe has just switched the key
C6_Witness ==
    /\ last_probe.outcome = "resp" /\ ~last_probe.ok
    /\ rotations = 1 /\ failed_attempts = 1 /\ len_api_keys = 2
    /\ current_key_index = 1

ListedFailure(o) ==
    o.kind \in {"conn", "read"} \/ o.status \in {500, 502, 504}

RetryAfterStatus(o) ==
    o.kind = "resp" /\ o.retry_after /\ o.status \in {413, 429, 503}

Sent == response.kind # "none"

\* C7 as stated: a further attempt follows only a connection failure, a read
\* failure or a 500, 502 or 504; at most 4 attempts; any other response is
\* returned after its attempt.
C7_RetryOnlyListed ==
    Sent =>
        /\ response.attempts \in 1..(retries + 1)
        /\ \A k \in 1..(response.attempts - 1) : ListedFailure(script[k])
        /\ ~ListedFailure(script[response.attempts]) =>
               /\ response.kind = "resp"
               /\ response.status = script[response.attempts].status

\* C7 amended: a further attempt follows only a connection failure, a read
\* failure, a 500, 502 or 504, or a 413, 429 or 503 that carries a Retry-After
\* header; at most 3 retries follow the first attempt; any other response is
\* returned after its attempt with no retry; 502, 502, 200 takes 3 attempts and
\* succeeds, a 404 takes 1 attempt, and a constant 502 ends after 4 attempts
\* with an exception.
C7_BoundedRetry ==
    Sent =>
        LET a == response.attempts
            last == script[a]
        IN  /\ a \in 1..(retries + 1)
            /\ \A k \in 1..(a - 1) : ListedFailure(script[k]) \/ RetryAfterStatus(script[k])
            /\ (~ListedFailure(last) /\ ~RetryAfterStatus(last)) =>
                   response.kind = "resp" /\ response.status = last.status
            /\ ListedFailure(last) => a = retries + 1 /\ response.kind = "raise"
            /\ RetryAfterStatus(last) =>
                   a = retries + 1 /\ response.kind = "resp" /\ response.status = last.status
            /\ (script[1].status = 502 /\ script[2].status = 502 /\ script[3].status = 200)
                   => a = 3 /\ response.kind = "resp" /\ response.status = 200
            /\ script[1].status = 404 => a = 1 /\ response.status = 404
            /\ (\A k \in 1..(retries + 1) : script[k].status = 502)
                   => a = retries + 1 /\ response.kind = "raise"

\* 502, 502, 200: three attempts, a success
C7_Witness ==
    /\ response.kind = "resp" /\ response.status = 200 /\ response.attempts = 3
    /\ script[1].status = 502 /\ script[2].status = 502

AllDone == \A r \in 1..Len(input_df) : input_df[r].Status = "Done"
AtDoneRow == pc = "loop" /\ index <= Len(input_df) /\ input_df[index].Status = "Done"
Fetching == pc \in {"check", "profile", "readme", "store"}

\* C8 as stated: every network call of a fetch - the quota probe, the profile
\* request, the README fetch - goes through the retrying session, so none of
\* them meets a transient failure on its first attempt without a further
\* attempt being made.
C8_AllCallsResilient ==
    last_call.call \in {"probe", "profile", "readme"} => ~last_call.unretried

\* C9: over a loaded table whose rows are all Done the loop makes no network
\* call and changes no row; in general a Done row is passed over with no
\* network call, and its Status and Email stay as they are for the rest of the
\* run.
C9_DoneRowsSkipped ==
    /\ []((pc \in {"loop", "check", "profile", "readme", "store"} /\ AllDone) =>
             (~Fetching /\ net = <<>> /\ last_call = NoCall))
    /\ [][(pc = "loop" /\ AllDone) =>
             (input_df' = input_df /\ stored' = stored /\ sheet2' = sheet2)]_vars
    /\ [][AtDoneRow =>
             (pc' \in {"loop", "exit"} /\ net' = <<>> /\ last_call' = NoCall)]_vars
    /\ [][\A r \in 1..Len(input_df) :
             (pc \in {"loop", "check", "profile", "readme", "store"}
              /\ input_df[r].Status = "Done") => input_df'[r] = input_df[r]]_vars

\* the CSV script has gone through a file of two rows, both Done when loaded
C9_Witness ==
    /\ mode = "csv" /\ run = 1 /\ pc = "loop"
    /\ Len(input_df) = 2 /\ index = 3 /\ AllDone
    /\ \A r \in 1..Len(input_df) : resolved_in[r] = 0

\* C10 as stated: in both scripts a row that an earlier run resolved is read
\* back as Done by every later run, so no later run fetches it again or writes
\* its output row a second time.
C10_AtMostOnceAcrossRuns ==
    /\ (Fetching /\ index <= Len(resolved_in)) =>
           ~(resolved_in[index] # 0 /\ resolved_in[index] < run)
    /\ \A i, j \in 1..Len(sheet2) : i # j => sheet2[i].row # sheet2[j].row

InRun == pc \in {"loop", "check", "profile", "readme", "store"}
AtRowBoundary == pc = "loop" /\ index <= Len(input_df)
WasFetched(r) == \E k \in 1..Len(fetched) : fetched[k] = r
FetchFailed == pc \in {"check", "profile", "readme"} /\ pc' = "loop"
NoResult == pc = "store" /\ email = None /\ pc' # pc

\* C11: when the budget is found exceeded at a row boundary the run ends there:
\* that row and the later rows are not fetched, the CSV script saves the table
\* as it stands (the sheet script has nothing left to save), and no row changes;
\* with the budget exceeded at the first row the run ends with no row fetched
\* and no network call made, pending rows or not.
C11_BudgetStopsTheRun ==
    /\ [][(AtRowBoundary /\ expired) =>
             /\ pc' = "exit"
             /\ fetched' = fetched
             /\ input_df' = input_df
             /\ sheet2' = sheet2
             /\ (mode = "csv" => stored' = input_df)
             /\ net' = <<>> /\ last_call' = NoCall]_vars
    /\ [][pc' = "check" => ~expired]_vars
    /\ [][pc = "exit" => fetched' = fetched]_vars
    /\ []((pc = "loop" /\ index = 1) =>
             (fetched = <<>> /\ net = <<>> /\ last_call = NoCall /\ request_count = 0))

\* the CSV script has ended its first run over two pending rows without
\* fetching either, the file saved as it was
C11_Witness ==
    /\ mode = "csv" /\ run = 1 /\ pc = "exit"
    /\ Len(input_df) = 2 /\ fetched = <<>>
    /\ \A r \in 1..2 : input_df[r] = Pending
    /\ stored = input_df

\* C12: a fetch that raises, or that comes back with no email, leaves the row's
\* Status and Email as they were (pending), writes no output row, and the loop
\* goes on to the next row; so every row the loop has passed was either Done
\* when loaded or handed to the fetcher.
C12_RowFailuresIsolated ==
    /\ [][(FetchFailed \/ NoResult) =>
             /\ pc' = "loop"
             /\ index' = index + 1
             /\ input_df' = input_df
             /\ ~is_done(input_df'[index])
             /\ sheet2' = sheet2
             /\ resolved_in' = resolved_in]_vars
    /\ [](pc = "loop" =>
             \A r \in 1..(index - 1) :
                 WasFetched(r) \/ (is_done(input_df[r]) /\ resolved_in[r] # run))

\* row 1 was fetched and is still pending, and row 2 was fetched and resolved
\* after it
C12_Witness ==
    /\ run = 1 /\ pc = "loop" /\ index = 3 /\ fetched = <<1, 2>>
    /\ input_df[1] = Pending
    /\ is_done(input_df[2]) /\ resolved_in[2] = 1

\* C13 as stated: when the write of a resolved row to the output sheet fails,
\* the run ends there: the loop does not go on to the next row.
C13_SinkErrorAborts ==
    [][(pc = "store" /\ mode = "sheet" /\ email # None /\ pc' # pc /\ sheet2' = sheet2) =>
          pc' = "exit"]_vars

\* C14: a profile answer other than 200 gives no result and no README fetch; a
\* 200 with an email gives that email and no README fetch; a 200 without one
\* gives what extract_email finds in the README (nothing when the README is not
\* a 200, nothing in a text without an address, the address of a text that
\* holds one); and a result that is not empty is stored in the row's Email with
\* Status Done.
C14_FetchResult ==
    /\ [](pc = "store" =>
             LET p == seen.profile
                 r == seen.readme
             IN  /\ p.answered
                 /\ ~p.ok => (email = None /\ ~r.answered)
                 /\ (p.ok /\ p.body # None) => (email = p.body /\ ~r.answered)
                 /\ (p.ok /\ p.body = None) =>
                        /\ r.answered
                        /\ ~r.ok => email = None
                        /\ (r.ok /\ r.body = <<"o">>) => email = None
                        /\ (r.ok /\ r.body = <<"<", "m", "@", "b", ".", "c", "o", ">">>) =>
                               email = <<"m", "@", "b", ".", "c", "o">>
                 /\ ~r.answered => \A k \in 1..Len(net) : net[k].call # "readme")
    /\ [][(pc = "store" /\ email # None /\ pc' # pc) =>
             input_df'[index] = [Status |-> "Done", Email |-> email]]_vars

\* the profile had no email and the address was found in the README
C14_Witness ==
    /\ pc = "store" /\ seen.profile.ok /\ seen.profile.body = None
    /\ seen.readme.ok /\ email = SampleEmail

\* C15: in one run the loop passes the rows once, in input order; the fetcher
\* is called at most once for a row; a row the loop has passed keeps its Status
\* and Email for the rest of the run; and the run comes to its end.
C15_RowsOnceAndTermination ==
    /\ [](\A j, k \in 1..Len(fetched) : j < k => fetched[j] < fetched[k])
    /\ [](InRun => \A k \in 1..Len(fetched) : fetched[k] <= index)
    /\ [][InRun => (index' \in {index, index + 1} \/ pc' = "exit")]_vars
    /\ [][InRun => \A r \in 1..Len(input_df) : r < index => input_df'[r] = input_df[r]]_vars
    /\ <>[](pc = "exit")

\* a run over two rows has ended: both were fetched, one resolved, one not
C15_Witness ==
    /\ pc = "exit" /\ fetched = <<1, 2>>
    /\ input_df[1] = Pending /\ is_done(input_df[2])

IsAddress(t) ==
    \E at \in 2..Len(t) : \E dot \in (at + 2)..(Len(t) - 2) :
        /\ t[at] = "@" /\ t[dot] = "."
        /\ \A i \in 1..(at - 1) : t[i] \in Letters \cup Digits \cup {".", "_", "%", "+", "-"}
        /\ \A i \in (at + 1)..(dot - 1) : t[i] \in Letters \cup Digits \cup {".", "-"}
        /\ \A i \in (dot + 1)..Len(t) : t[i] \in Letters

IsPartOf(t, whole) ==
    \E s \in 1..Len(whole) : s + Len(t) - 1 <= Len(whole) /\ SubSeq(whole, s, s + Len(t) - 1) = t

\* C16 as stated: extract_email returns nothing, or a part of the text made of
\* a local part, an @, a domain, a dot and two or more letters; and it returns
\* nothing for a text without an @.
C16_FirstPatternToken ==
    extracted.called =>
        /\ extracted.result # None =>
               (IsAddress(extracted.result) /\ IsPartOf(extracted.result, input_text))
        /\ (\A i \in 1..Len(input_text) : input_text[i] # "@") => extracted.result = None

ProbesIn(calls) == {k \in 1..Len(calls) : calls[k].call = "probe"}
AfterProbe == pc \in {"profile", "readme", "store"}

\* C17 as stated: a fetch makes one quota probe, before the profile request;
\* the profile request and the README fetch carry the key current_key_index
\* stands at after the probe's switch; and a switch leaves the request with a
\* key other than the one the probe was made with.
C17_ProbeThenSwitchedKey ==
    /\ [](AfterProbe => (net # <<>> /\ ProbesIn(net) = {1}))
    /\ [](\A k \in 2..Len(net) : net[k].key = current_key_index)
    /\ [][(pc = "check" /\ pc' = "profile" /\ rotations' # rotations) =>
             current_key_index' # net'[1].key]_vars

\* C17 amended: a fetch makes one quota probe, before the profile request; the
\* profile request and the README fetch carry the key current_key_index stands
\* at after the probe's switch; a switch moves to the next key of the pool,
\* which in a pool of two or more is not the key the probe was made with, and
\* in a pool of one is that same key again.
C17_ProbeThenCurrentKey ==
    /\ [](AfterProbe => (net # <<>> /\ ProbesIn(net) = {1}))
    /\ [](\A k \in 2..Len(net) : net[k].key = current_key_index)
    /\ [][(pc = "check" /\ pc' = "profile") =>
             IF rotations' # rotations
             THEN /\ current_key_index' = (net'[1].key + 1) % len_api_keys
                  /\ (len_api_keys > 1 <=> current_key_index' # net'[1].key)
             ELSE current_key_index' = net'[1].key]_vars

\* the probe was made with key 0 and the profile request went out with key 1
C17_Witness ==
    /\ pc \in {"readme", "store"} /\ Len(net) >= 2
    /\ net[1] = [call |-> "probe", key |-> 0]
    /\ net[2] = [call |-> "profile", key |-> 1]

C19_DoneHasEmail ==
    /\ [](\A r \in 1..Len(input_df) : is_done(input_df[r]) => input_df[r].Email # None)
    /\ [][InRun => \A r \in 1..Len(input_df) :
             input_df'[r] # input_df[r] =>
                 /\ r = index /\ pc = "store" /\ email # None
                 /\ ~is_done(input_df[r])
                 /\ input_df'[r] = [Status |-> "Done", Email |-> email]]_vars

\* a row Done when loaded and a row resolved in this run
C19_Witness ==
    /\ mode = "csv" /\ run = 1 /\ pc = "loop" /\ index = 3
    /\ is_done(input_df[1]) /\ resolved_in[1] = 0
    /\ is_done(input_df[2]) /\ resolved_in[2] = 1 /\ input_df[2].Email # None

WrittenIn(n) == {k \in 1..Len(sheet2) : sheet2[k].run = n}

\* C20 as stated: in the sheet script an output row is written only with an
\* email, at most once per input row in a run, in input order, and every row
\* marked Done during the run has its output row.
C20_OutputMatchesDone ==
    mode = "sheet" =>
        /\ \A k \in 1..Len(sheet2) : sheet2[k].Email # None
        /\ \A j, k \in WrittenIn(run) : j < k => sheet2[j].row < sheet2[k].row
        /\ \A r \in 1..Len(input_df) :
               (is_done(input_df[r]) /\ resolved_in[r] = run) =>
                   \E k \in WrittenIn(run) : sheet2[k].row = r

====
